---- MODULE Spec2Model ----
(***************************************************************************)
(* A model of data_streaming_service/server.py: the candle replay session  *)
(* (_handle_candle_stream with its control_listener task), the data source *)
(* query fetch_candles, clamp_batch_size and SimpleMovingAverage.          *)
(*                                                                         *)
(* Conventions.                                                            *)
(*   - A Python Optional is a sequence: <<>> is None, <<v>> is the value.  *)
(*   - A string is modelled by what int() and float() make of it, see Str. *)
(*   - A speed is a float counted in tenths (10 is 1.0, 1 is 0.1) or NaN.  *)
(*   - A price or a running sum is a float64 hi * 2^53 + lo, see FRound.   *)
(*   - A pacing delay is a fraction n/d, d > 0, see pacing_delay.          *)
(***************************************************************************)
EXTENDS Integers, Sequences, FiniteSets, TLC

\* ------------------------------------------------------------------ bounds

\* Longest data source (rows of the candles table matching the session).
MaxLen == 3
\* Largest record timestamp; timestamps are drawn from 1..MaxTs.
MaxTs == 3
\* Largest SMA period the indicator specs and the SMA harness use.
MaxPeriod == 3
\* Most values fed to the SMA in the pure-function harness.
MaxFeed == 5

\* ------------------------------------------------------- program constants

DEFAULT_BATCH_SIZE == 500
MAX_BATCH_SIZE == 2000
\* 0.1, the floor of the playback speed, in tenths.
MIN_SPEED == 1
\* 1.0, the speed of a session that gives none, in tenths.
DEFAULT_SPEED == 10
\* The period of an sma spec that gives none.
DEFAULT_PERIOD == 20
\* The pacing tunables, as the environment leaves them by default (ms).
MIN_EMIT_DELAY_MS == 1
MAX_EMIT_DELAY_MS == 250
BASE_DELAY_MS == 400
REFERENCE_DELTA_MS == 900000

\* ---------------------------------------------------------- Python values

None == <<>>
Some(v) == <<v>>

Max2(a, b) == IF b > a THEN b ELSE a
Min2(a, b) == IF b < a THEN b ELSE a

\* Strings, by kind: no string (None), "", a text that is no number, the
\* decimal literal of an integer v, a decimal literal with a fraction (v in
\* tenths), and "nan".
NoneV == [k |-> "none", v |-> 0]
EmptyStr == [k |-> "empty", v |-> 0]
Text == [k |-> "text", v |-> 0]
IntStr(n) == [k |-> "int", v |-> n]
DecStr(t) == [k |-> "dec", v |-> t]
NanStr == [k |-> "nan", v |-> 0]

\* Python truthiness of an Optional[str]: None and "" are falsy.
Truthy(s) == s.k \notin {"none", "empty"}
\* a or b
PyOr(a, b) == IF Truthy(a) THEN a ELSE b

Ok(v) == [ok |-> TRUE, val |-> v, err |-> ""]
Err(e) == [ok |-> FALSE, val |-> 0, err |-> e]

\* int(s) of a string: only an integer literal parses.
py_int(s) ==
    IF s.k = "int" THEN Ok(s.v)
    ELSE IF s.k = "none" THEN Err("TypeError")
    ELSE Err("ValueError")

\* Floats of the speed arithmetic: a number of tenths, or NaN.
Num(t) == [nan |-> FALSE, v |-> t]
NaN == [nan |-> TRUE, v |-> 0]
\* b > a on floats: every comparison with NaN is false.
FGt(b, a) == ~b.nan /\ ~a.nan /\ b.v > a.v
\* Python's max(a, b): a unless b > a.
py_max(a, b) == IF FGt(b, a) THEN b ELSE a

\* float(s) of a string.
py_float_str(s) ==
    CASE s.k = "int" -> Ok(Num(10 * s.v))
      [] s.k = "dec" -> Ok(Num(s.v))
      [] s.k = "nan" -> Ok(NaN)
      [] s.k = "none" -> Err("TypeError")
      [] OTHER -> Err("ValueError")

\* ------------------------------------------------- float64 sums of the SMA

\* The float64 value hi * 2^53 + lo, for small hi >= 0 and small lo. Below
\* 2^53 every integer is a float64; in [2^53, 2^54) only the multiples of 2
\* are, in [2^54, 2^55) the multiples of 4, and so on.
F(hi, lo) == [hi |-> hi, lo |-> lo]
Ulp(x) ==
    LET h == IF x.lo < 0 THEN x.hi - 1 ELSE x.hi
    IN  IF h <= 0 THEN 1
        ELSE IF h = 1 THEN 2
        ELSE IF h <= 3 THEN 4
        ELSE IF h <= 7 THEN 8
        ELSE 16
\* The multiple of u nearest to n, a tie going to the even multiple.
RoundEven(n, u) ==
    LET q == n \div u
        r == n % u
    IN  IF 2 * r < u THEN q * u
        ELSE IF 2 * r > u THEN (q + 1) * u
        ELSE IF q % 2 = 0 THEN q * u
        ELSE (q + 1) * u
\* Round to nearest, ties to even: what every float64 + and - ends with.
FRound(x) == F(x.hi, RoundEven(x.lo, Ulp(x)))
FAdd(a, b) == FRound(F(a.hi + b.hi, a.lo + b.lo))
FSub(a, b) == FRound(F(a.hi - b.hi, a.lo - b.lo))
\* The sum of a sequence of floats in exact arithmetic (no rounding).
RECURSIVE ExactSum(_)
ExactSum(w) ==
    IF w = <<>> THEN F(0, 0)
    ELSE LET t == ExactSum(Tail(w))
         IN  F(Head(w).hi + t.hi, Head(w).lo + t.lo)
\* Whether an exact value is a float64.
Representable(x) == FRound(x) = x

\* ------------------------------------------------------ clamp_batch_size

clamp_batch_size_nofloor(raw) ==
    LET parsed == py_int(raw)
        requested == IF Truthy(raw)
                     THEN (IF parsed.ok THEN parsed.val ELSE DEFAULT_BATCH_SIZE)
                     ELSE DEFAULT_BATCH_SIZE
    IN  Min2(requested, MAX_BATCH_SIZE)

clamp_batch_size(raw) ==
    LET parsed == py_int(raw)
        requested == IF Truthy(raw)
                     THEN (IF parsed.ok THEN parsed.val ELSE DEFAULT_BATCH_SIZE)
                     ELSE DEFAULT_BATCH_SIZE
    IN  Max2(1, Min2(requested, MAX_BATCH_SIZE))

\* --------------------------------------------------- SimpleMovingAverage

SMA_init(period) ==
    [period |-> Max2(1, period), window |-> <<>>, sum |-> F(0, 0)]

\* update(value): the object after the call and the value returned, the
\* quotient sum / len(window) kept as the pair (num, den).
SMA_update(s, value) ==
    LET w1 == Append(s.window, value)
        s1 == FAdd(s.sum, value)
        over == Len(w1) > s.period
        w2 == IF over THEN Tail(w1) ELSE w1
        s2 == IF over THEN FSub(s1, Head(w1)) ELSE s1
    IN  [obj |-> [period |-> s.period, window |-> w2, sum |-> s2],
         ret |-> IF Len(w2) < s.period
                 THEN None
                 ELSE Some([num |-> s2, den |-> Len(w2)])]

\* ----------------------------------------------------------- data source

\* The rows of the candles table that match the session's symbol, timeframe
\* and dataset, in the order ORDER BY timestamp ASC gives them. The k-th row
\* closes at price k.
MkSource(tss) ==
    [k \in 1..Len(tss) |-> [idx |-> k, ts |-> tss[k], close |-> F(0, k)]]
Ascending(tss) == \A k \in 1..(Len(tss) - 1) : tss[k] <= tss[k + 1]
Sources ==
    {MkSource(tss) :
        tss \in {t \in UNION {[1..n -> 1..MaxTs] : n \in 0..MaxLen} : Ascending(t)}}

Prefix(sq, n) == SubSeq(sq, 1, Min2(n, Len(sq)))

fetch_candles_ge(src, after_timestamp, limit) ==
    LET sel == IF after_timestamp # None
               THEN SelectSeq(src, LAMBDA r : r.ts >= after_timestamp[1])
               ELSE src
    IN  Prefix(sel, limit)

fetch_candles_nofilter(src, after_timestamp, limit) == Prefix(src, limit)

\* WHERE timestamp > after (when given) ORDER BY timestamp ASC LIMIT limit.
\* The query with a filter that skips the row next to the cursor.
fetch_candles_skip(src, after_timestamp, limit) ==
    LET sel == IF after_timestamp # None
               THEN SelectSeq(src, LAMBDA r : r.ts > after_timestamp[1] + 1)
               ELSE src
    IN  Prefix(sel, limit)

\* The query without its LIMIT.
fetch_candles_nolimit(src, after_timestamp, limit) ==
    IF after_timestamp # None
    THEN SelectSeq(src, LAMBDA r : r.ts > after_timestamp[1])
    ELSE src

fetch_candles(src, after_timestamp, limit) ==
    LET sel == IF after_timestamp # None
               THEN SelectSeq(src, LAMBDA r : r.ts > after_timestamp[1])
               ELSE src
    IN  Prefix(sel, limit)

\* ------------------------------------------------------ indicator specs

\* The "period" of a spec's params: absent, an integer, a string that is no
\* number, or null.
PAbsent == [k |-> "absent", v |-> 0]
PInt(n) == [k |-> "int", v |-> n]
PBad == [k |-> "bad", v |-> 0]
PNull == [k |-> "null", v |-> 0]

\* One element of the indicators list: a JSON object with its "type", "id"
\* ("" when absent or empty) and period, or a value that is no object.
IndSpec(type, id, period) == [dict |-> TRUE, type |-> type, id |-> id, period |-> period]
NotADict == [dict |-> FALSE, type |-> "", id |-> "", period |-> PAbsent]

\* int(period_raw), period_raw being params.get("period", 20).
period_int(p) ==
    CASE p.k = "absent" -> Ok(DEFAULT_PERIOD)
      [] p.k = "int" -> Ok(p.v)
      [] p.k = "null" -> Err("TypeError")
      [] OTHER -> Err("ValueError")

\* The instance a spec adds to indicator_instances: none when it is skipped.
spec_instance(spec) ==
    IF ~spec.dict THEN <<>>
    ELSE IF spec.type # "sma" THEN <<>>
    ELSE LET parsed == period_int(spec.period)
         IN  IF ~parsed.ok THEN <<>>
             ELSE LET period_val == Max2(1, parsed.val)
                  IN  <<[id |-> IF spec.id # "" THEN spec.id
                                ELSE "sma-" \o ToString(period_val),
                         warmup |-> Max2(0, period_val - 1),
                         impl |-> SMA_init(period_val)]>>

RECURSIVE build_instances(_)
build_instances(specs) ==
    IF specs = <<>> THEN <<>>
    ELSE spec_instance(Head(specs)) \o build_instances(Tail(specs))

\* The indicators query parameter: absent, "", a text that is no JSON, or a
\* JSON text holding a list of specs or a value that is no list.
IndNone == [k |-> "none", list |-> FALSE, specs |-> <<>>]
IndEmpty == [k |-> "empty", list |-> FALSE, specs |-> <<>>]
IndMalformed == [k |-> "malformed", list |-> FALSE, specs |-> <<>>]
IndNotList == [k |-> "json", list |-> FALSE, specs |-> <<>>]
IndList(specs) == [k |-> "json", list |-> TRUE, specs |-> specs]

\* Lines 164-190: the instances, or the JSONDecodeError.
\* Lines 164-190 with the JSONDecodeError swallowed.
parse_indicators_lenient(indicators_raw) ==
    IF indicators_raw.k \in {"none", "empty"} THEN Ok(<<>>)
    ELSE IF indicators_raw.list THEN Ok(build_instances(indicators_raw.specs))
    ELSE Ok(<<>>)

parse_indicators(indicators_raw) ==
    IF indicators_raw.k \in {"none", "empty"} THEN Ok(<<>>)
    ELSE IF indicators_raw.k = "malformed" THEN Err("JSONDecodeError")
    ELSE IF indicators_raw.list THEN Ok(build_instances(indicators_raw.specs))
    ELSE Ok(<<>>)

\* Lines 229-231: every instance is updated with the row's close, in order.
update_all(instances, close) ==
    [k \in 1..Len(instances) |-> SMA_update(instances[k].impl, close)]

InstanceIds(instances) == {instances[k].id : k \in 1..Len(instances)}

indicator_payload_first(instances, upd) ==
    [id \in InstanceIds(instances) |->
        LET k == CHOOSE j \in 1..Len(instances) :
                    /\ instances[j].id = id
                    /\ \A l \in 1..Len(instances) : instances[l].id = id => l >= j
        IN  upd[k].ret]

\* indicator_payload[instance["id"]] = value, in list order: a later
\* instance's value replaces an earlier one's under the same id.
indicator_payload(instances, upd) ==
    [id \in InstanceIds(instances) |->
        LET k == CHOOSE j \in 1..Len(instances) :
                    /\ instances[j].id = id
                    /\ \A l \in 1..Len(instances) : instances[l].id = id => l <= j
        IN  upd[k].ret]

\* ------------------------------------------------------ control messages

\* The "speed" field of a control message, as JSON.
JAbsent == [k |-> "absent", s |-> NoneV, v |-> 0]
JNull == [k |-> "null", s |-> NoneV, v |-> 0]
JNum(t) == [k |-> "num", s |-> NoneV, v |-> t]
JNaN == [k |-> "nan", s |-> NoneV, v |-> 0]
JStr(s) == [k |-> "str", s |-> s, v |-> 0]
JList == [k |-> "list", s |-> NoneV, v |-> 0]

\* float(message.get("speed")).
py_float_json(j) ==
    CASE j.k = "num" -> Ok(Num(j.v))
      [] j.k = "nan" -> Ok(NaN)
      [] j.k = "str" -> py_float_str(j.s)
      [] OTHER -> Err("TypeError")

\* An inbound frame: one receive_json cannot decode, a JSON value that is no
\* object, or an object with its "type" ("" when it has none) and "speed".
Undecodable == [decodable |-> FALSE, dict |-> FALSE, type |-> "", speed |-> JAbsent]
NotAnObject == [decodable |-> TRUE, dict |-> FALSE, type |-> "", speed |-> JAbsent]
Msg(type, speed) == [decodable |-> TRUE, dict |-> TRUE, type |-> type, speed |-> speed]
PAUSE == Msg("PAUSE", JAbsent)
PLAY == Msg("PLAY", JAbsent)
SET_SPEED(j) == Msg("SET_SPEED", j)

set_speed_swapped(cur, j) ==
    LET parsed == py_float_json(j)
    IN  IF parsed.ok THEN py_max(parsed.val, Num(MIN_SPEED)) ELSE cur

\* Lines 201-205: the speed after a SET_SPEED whose field is j.
set_speed(cur, j) ==
    LET parsed == py_float_json(j)
    IN  IF parsed.ok THEN py_max(Num(MIN_SPEED), parsed.val) ELSE cur

control_apply_reset(m, cur_speed, cur_paused) ==
    IF ~m.dict THEN [speed |-> cur_speed, paused |-> cur_paused]
    ELSE IF m.type = "SET_SPEED"
    THEN [speed |-> IF py_float_json(m.speed).ok
                    THEN set_speed(cur_speed, m.speed)
                    ELSE Num(DEFAULT_SPEED),
          paused |-> cur_paused]
    ELSE IF m.type = "PAUSE" THEN [speed |-> cur_speed, paused |-> TRUE]
    ELSE IF m.type = "PLAY" THEN [speed |-> cur_speed, paused |-> FALSE]
    ELSE [speed |-> cur_speed, paused |-> FALSE]

\* Lines 197-209: speed and paused after a decoded message.
control_apply(m, cur_speed, cur_paused) ==
    IF ~m.dict THEN [speed |-> cur_speed, paused |-> cur_paused]
    ELSE IF m.type = "SET_SPEED"
    THEN [speed |-> set_speed(cur_speed, m.speed), paused |-> cur_paused]
    ELSE IF m.type = "PAUSE" THEN [speed |-> cur_speed, paused |-> TRUE]
    ELSE IF m.type = "PLAY" THEN [speed |-> cur_speed, paused |-> FALSE]
    ELSE [speed |-> cur_speed, paused |-> cur_paused]

\* Lines 144-148: the session's first speed.
initial_speed(speed_raw) ==
    IF speed_raw.k # "none"
    THEN LET parsed == py_float_str(speed_raw)
         IN  IF parsed.ok THEN py_max(Num(MIN_SPEED), parsed.val)
             ELSE Num(DEFAULT_SPEED)
    ELSE Num(DEFAULT_SPEED)

\* Lines 157-162: the first cursor, or the ValueError.
initial_cursor(after_raw) ==
    IF after_raw.k # "none"
    THEN LET parsed == py_int(after_raw)
         IN  IF parsed.ok THEN Ok(Some(parsed.val)) ELSE Err("ValueError")
    ELSE Ok(None)

\* ------------------------------------------------------------ pacing delay

\* The floats of lines 240-246 as fractions n/d with d > 0. Every operation
\* of those lines is monotone in each operand, and so is its rounding; max
\* and min return one of their operands as it is.
RECURSIVE Gcd(_, _)
Gcd(a, b) == IF b = 0 THEN a ELSE Gcd(b, a % b)
Abs(n) == IF n < 0 THEN -n ELSE n
\* n/d in lowest terms.
R(n, d) == LET g == Gcd(Abs(n), d) IN [n |-> n \div g, d |-> d \div g]
RInt(n) == [n |-> n, d |-> 1]
RLt(a, b) == a.n * b.d < b.n * a.d
RLe(a, b) == a.n * b.d <= b.n * a.d
REq(a, b) == a.n * b.d = b.n * a.d
RMul(a, b) == R(a.n * b.n, a.d * b.d)
\* a / b for b # 0.
RDiv(a, b) == IF b.n > 0 THEN R(a.n * b.d, a.d * b.n) ELSE R(-(a.n * b.d), -(a.d * b.n))
\* Python's max and min of two: the first unless the second is beyond it.
RMax(a, b) == IF RLt(a, b) THEN b ELSE a
RMin(a, b) == IF RLt(b, a) THEN b ELSE a
\* A speed (tenths) as a fraction.
SpeedR(s) == R(s.v, 10)

\* The tunables of lines 22-25, read from the environment at import.
Tunables(min, max, base, ref) == [min |-> min, max |-> max, base |-> base, ref |-> ref]
DefaultTunables ==
    Tunables(MIN_EMIT_DELAY_MS, MAX_EMIT_DELAY_MS, BASE_DELAY_MS, REFERENCE_DELTA_MS)

\* Line 240.
delta_ms(ts, last) == RMax(RInt(1), RInt(ts - last))
\* Line 245.
dynamic_max(cfg, s) ==
    RMax(RInt(20), RDiv(RInt(cfg.max), RMax(RInt(1), RDiv(SpeedR(s), RInt(10)))))

\* Lines 240-246 with the upper clamp left out.
pacing_delay_noclamp(cfg, ts, last, s) ==
    IF cfg.ref = 0 THEN Err("ZeroDivisionError")
    ELSE LET normalized == RMul(RDiv(delta_ms(ts, last), RInt(cfg.ref)), RInt(cfg.base))
             delay == RDiv(normalized, RMax(SpeedR(s), R(1, 10)))
         IN  Ok(RMax(RInt(cfg.min), delay))

\* Lines 240-246 with the speed multiplied in.
pacing_delay_times(cfg, ts, last, s) ==
    IF cfg.ref = 0 THEN Err("ZeroDivisionError")
    ELSE LET normalized == RMul(RDiv(delta_ms(ts, last), RInt(cfg.ref)), RInt(cfg.base))
             delay == RMul(normalized, RMax(SpeedR(s), R(1, 10)))
         IN  Ok(RMax(RInt(cfg.min), RMin(dynamic_max(cfg, s), delay)))

\* Lines 240-246: the delay before the cursor moves past a record sent at
\* ts after one sent at last, in ms; the ZeroDivisionError of line 242 when
\* the reference delta is 0.
pacing_delay(cfg, ts, last, s) ==
    IF cfg.ref = 0 THEN Err("ZeroDivisionError")
    ELSE LET normalized == RMul(RDiv(delta_ms(ts, last), RInt(cfg.ref)), RInt(cfg.base))
             delay == RDiv(normalized, RMax(SpeedR(s), R(1, 10)))
         IN  Ok(RMax(RInt(cfg.min), RMin(dynamic_max(cfg, s), delay)))

\* Line 249: last_timestamp = ts.
advance_cursor_stale(cur, sent_before, ts) == IF sent_before = None THEN cur ELSE Some(ts)
advance_cursor_keep(cur, sent_before, ts) == cur
advance_cursor(cur, sent_before, ts) == Some(ts)

\* ------------------------------------------------------------------ state

VARIABLES
    params,               \* the connection's query parameters
    source,               \* the matching rows of the candles table
    connected,            \* the client has not gone away and the server has not closed
    pc,                   \* where _handle_candle_stream stands
    lpc,                  \* where control_listener stands
    batch_size, speed, paused, last_sent_ts, last_timestamp,
    indicator_instances,
    rows,                 \* the batch in hand
    i,                    \* the index in rows of the row being processed
    fetch_after,          \* after_timestamp of the fetch in flight, or of the last one
    message,              \* control_listener's last decoded message (None before any)
    outbox,               \* the messages sent to the client, in order
    resume,               \* history: a PAUSE directly followed by a PLAY, and what came next
    hist,                 \* history: the rows fetched so far, the messages sent when paused was set
    sma, fed, outs,       \* harness: one SimpleMovingAverage, the values fed, the values returned
    raw, clamped,         \* harness: an argument of clamp_batch_size and its result
    pace                  \* harness: the inputs of one pacing delay and the delay (None before)

vars == <<params, source, connected, pc, lpc, batch_size, speed, paused,
          last_sent_ts, last_timestamp, indicator_instances, rows, i,
          fetch_after, message, outbox, resume, hist, sma, fed, outs, raw,
          clamped, pace>>

sessionVars == <<params, source, connected, pc, lpc, batch_size, speed, paused,
                 last_sent_ts, last_timestamp, indicator_instances, rows, i,
                 fetch_after, message, outbox, resume, hist>>
harnessVars == <<sma, fed, outs, raw, clamped, pace>>

\* ---------------------------------------------------------------- inputs

BaseParams ==
    [symbol |-> Text, timeframe |-> Text, after |-> NoneV, from |-> NoneV,
     batch |-> NoneV, speed |-> NoneV, indicators |-> IndNone]

\* Sessions that differ in the cursor and the batch size.
CursorParams ==
    {[BaseParams EXCEPT !.after = a, !.batch = b] :
        a \in {NoneV, IntStr(1)}, b \in {NoneV, IntStr(1), IntStr(2)}}
    \cup {[BaseParams EXCEPT !.after = EmptyStr, !.from = IntStr(2)],
          [BaseParams EXCEPT !.after = Text],
          [BaseParams EXCEPT !.from = EmptyStr]}

\* Sessions that differ in the indicators.
IndicatorInputs ==
    {IndEmpty, IndMalformed, IndNotList,
     IndList(<<IndSpec("sma", "a", PInt(1)), IndSpec("sma", "a", PInt(2))>>),
     IndList(<<IndSpec("sma", "", PInt(2)), IndSpec("sma", "sma-2", PInt(1))>>),
     IndList(<<NotADict, IndSpec("ema", "e", PInt(2)), IndSpec("sma", "b", PBad),
               IndSpec("sma", "n", PNull), IndSpec("sma", "", PAbsent),
               IndSpec("sma", "z", PInt(0))>>)}
IndicatorParams == {[BaseParams EXCEPT !.indicators = x] : x \in IndicatorInputs}

\* Sessions that differ in the speed.
SpeedParams ==
    {[BaseParams EXCEPT !.speed = x] : x \in {IntStr(0), DecStr(25), Text, NanStr}}

\* Sessions without a symbol or a timeframe.
MissingParams ==
    {[BaseParams EXCEPT !.symbol = NoneV],
     [BaseParams EXCEPT !.timeframe = EmptyStr]}

ParamSets == CursorParams \cup IndicatorParams \cup SpeedParams \cup MissingParams

\* The control messages a client sends in the replay specification.
CoreMsgs == {PAUSE, PLAY, SET_SPEED(JNum(25)), Undecodable}

\* The control messages a client sends in the control specification.
CtlMsgs ==
    {PAUSE, PLAY, Undecodable, NotAnObject,
     Msg("", JAbsent), Msg("STOP", JNum(25)),
     SET_SPEED(JNum(25)), SET_SPEED(JNum(0)), SET_SPEED(JNum(-10)),
     SET_SPEED(JNaN), SET_SPEED(JStr(DecStr(5))),
     SET_SPEED(JAbsent), SET_SPEED(JNull), SET_SPEED(JStr(Text)), SET_SPEED(JList)}

\* ------------------------------------------------------------------- init

ResumeIdle ==
    [st |-> "idle", cur |-> None, inhand |-> FALSE, at |-> None, exp |-> 0, got |-> 0]

\* Nothing fetched, paused not set.
HistIdle == [fetched |-> <<>>, mark |-> None]

HarnessIdle ==
    /\ sma = SMA_init(1)
    /\ fed = <<>>
    /\ outs = <<>>
    /\ raw = NoneV
    /\ clamped = None
    /\ pace = None

\* The connection is accepted; the handler has read nothing yet.
SessionStart(p, src) ==
    /\ params = p
    /\ source = src
    /\ connected = TRUE
    /\ pc = "accept"
    /\ lpc = "none"
    /\ batch_size = DEFAULT_BATCH_SIZE
    /\ speed = Num(DEFAULT_SPEED)
    /\ paused = FALSE
    /\ last_sent_ts = None
    /\ last_timestamp = None
    /\ indicator_instances = <<>>
    /\ rows = <<>>
    /\ i = 0
    /\ fetch_after = None
    /\ message = None
    /\ outbox = <<>>
    /\ resume = ResumeIdle
    /\ hist = HistIdle

Init ==
    /\ \E p \in ParamSets, src \in Sources : SessionStart(p, src)
    /\ HarnessIdle

\* ------------------------------------------------------------------ setup

ErrorMsg(text) == [type |-> "ERROR", idx |-> 0, ts |-> 0, indicators |-> <<>>, error |-> text]
CandleMsg(row, inds) ==
    [type |-> "CANDLE", idx |-> row.idx, ts |-> row.ts, indicators |-> inds, error |-> ""]

\* Lines 137-215: from accept to the start of the control listener, or to the
\* ERROR message and the close.
Setup ==
    /\ pc = "accept"
    /\ LET after_raw == PyOr(params.after, params.from)
           cur == initial_cursor(after_raw)
           inds == parse_indicators(params.indicators)
           error == IF ~Truthy(params.symbol) \/ ~Truthy(params.timeframe)
                    THEN "symbol and timeframe query params are required"
                    ELSE IF ~cur.ok
                    THEN "after/from must be a unix epoch in milliseconds"
                    ELSE IF ~inds.ok THEN "invalid indicators payload"
                    ELSE ""
       IN  /\ batch_size' = clamp_batch_size(params.batch)
           /\ speed' = initial_speed(params.speed)
           /\ paused' = FALSE
           /\ last_sent_ts' = None
           /\ IF error # ""
              THEN /\ outbox' = <<ErrorMsg(error)>>
                   /\ connected' = FALSE
                   /\ pc' = "closed"
                   /\ lpc' = "none"
                   /\ last_timestamp' = None
                   /\ indicator_instances' = <<>>
              ELSE /\ outbox' = <<>>
                   /\ connected' = TRUE
                   /\ pc' = "gate"
                   /\ lpc' = "recv"
                   /\ last_timestamp' = cur.val
                   /\ indicator_instances' = inds.val
    /\ UNCHANGED <<hist, params, source, rows, i, fetch_after, message, resume>>
    /\ UNCHANGED harnessVars

\* ------------------------------------------------- history of PAUSE, PLAY

\* The index in the source of its first row after a cursor; 0 when none.
FirstAfter(src, cur) ==
    LET later == {k \in 1..Len(src) : cur = None \/ src[k].ts > cur[1]}
    IN  IF later = {} THEN 0
        ELSE CHOOSE k \in later : \A l \in later : k <= l

InBatch == pc \in {"emit", "sent", "pacing"}
\* The rows of the batch in hand that are not sent yet.
Unsent ==
    IF pc = "emit" THEN SubSeq(rows, i, Len(rows))
    ELSE IF pc \in {"sent", "pacing"} THEN SubSeq(rows, i + 1, Len(rows))
    ELSE <<>>
\* The timestamp of the last record sent, or the first cursor when none was.
LastEmitted == IF pc \in {"sent", "pacing"} THEN Some(rows[i].ts) ELSE last_timestamp
\* The record the loop sends next: the next unsent row of the batch in hand,
\* else the first row of the source after the last record sent.
ExpectedNext ==
    IF Unsent # <<>> THEN Unsent[1].idx ELSE FirstAfter(source, LastEmitted)

\* resume follows one PAUSE and the PLAY that comes next, with no other
\* control message and no fetch started or completed in between ("paused",
\* then "armed"), up to the next record sent ("fired", for one step):
\*   cur: the cursor when PAUSE was applied,  inhand: a batch was in hand then,
\*   at: the cursor when PLAY was applied,    exp: ExpectedNext then,
\*   got: the record sent next.
ResumeStep(ev, got) ==
    CASE ev = "PAUSE" ->
            [st |-> "paused", cur |-> last_timestamp, inhand |-> InBatch,
             at |-> None, exp |-> 0, got |-> 0]
      [] ev = "PLAY" /\ resume.st = "paused" ->
            [resume EXCEPT !.st = "armed", !.at = last_timestamp, !.exp = ExpectedNext]
      [] ev = "emit" /\ resume.st = "armed" ->
            [resume EXCEPT !.st = "fired", !.got = got]
      [] ev \in {"emit", "loop"} /\ resume.st = "paused" -> resume
      [] OTHER -> IF resume.st = "armed" THEN resume ELSE ResumeIdle

\* ------------------------------------------------------------ replay loop

\* A finally clause that leaves the listener alone.
Cancelled_not(l) == l

\* ctrl_task.cancel() in the finally clause.
Cancelled(l) == IF l = "recv" THEN "cancelled" ELSE l

\* Lines 219-221: the loop finds paused set and sleeps 50 ms.
PauseWait ==
    /\ pc = "gate"
    /\ paused
    /\ pc' = "pause_sleep"
    /\ resume' = ResumeStep("loop", 0)
    /\ UNCHANGED <<hist, params, source, connected, lpc, batch_size, speed, paused,
                   last_sent_ts, last_timestamp, indicator_instances, rows, i,
                   fetch_after, message, outbox>>
    /\ UNCHANGED harnessVars

\* The 50 ms are over: back to line 219.
PauseWake ==
    /\ pc = "pause_sleep"
    /\ pc' = "gate"
    /\ resume' = ResumeStep("loop", 0)
    /\ UNCHANGED <<hist, params, source, connected, lpc, batch_size, speed, paused,
                   last_sent_ts, last_timestamp, indicator_instances, rows, i,
                   fetch_after, message, outbox>>
    /\ UNCHANGED harnessVars

\* Line 223 reached without the test of line 219.
FetchStart_nogate ==
    /\ pc = "gate"
    /\ pc' = "fetch"
    /\ fetch_after' = last_timestamp
    /\ resume' = ResumeStep("fetch", 0)
    /\ UNCHANGED <<hist, params, source, connected, lpc, batch_size, speed, paused,
                   last_sent_ts, last_timestamp, indicator_instances, rows, i,
                   message, outbox>>
    /\ UNCHANGED harnessVars

\* Line 223: the loop calls fetch_candles with the cursor and awaits it.
FetchStart ==
    /\ pc = "gate"
    /\ ~paused
    /\ pc' = "fetch"
    /\ fetch_after' = last_timestamp
    /\ resume' = ResumeStep("fetch", 0)
    /\ UNCHANGED <<hist, params, source, connected, lpc, batch_size, speed, paused,
                   last_sent_ts, last_timestamp, indicator_instances, rows, i,
                   message, outbox>>
    /\ UNCHANGED harnessVars

\* Lines 223-225, 254-255: the batch arrives; the loop takes its first row,
\* or sleeps the poll interval when it is empty.
FetchReturn ==
    /\ pc = "fetch"
    /\ rows' = fetch_candles(source, fetch_after, batch_size)
    /\ IF rows' # <<>>
       THEN pc' = "emit" /\ i' = 1
       ELSE pc' = "poll_sleep" /\ i' = 0
    /\ resume' = ResumeStep("fetch", 0)
    /\ hist' = [hist EXCEPT !.fetched = hist.fetched \o rows']
    /\ UNCHANGED <<params, source, connected, lpc, batch_size, speed, paused,
                   last_sent_ts, last_timestamp, indicator_instances,
                   fetch_after, message, outbox>>
    /\ UNCHANGED harnessVars

\* Lines 223, 258-259: the data source fails; the exception leaves the loop
\* through the finally clause.
FetchFail ==
    /\ pc = "fetch"
    /\ pc' = "done"
    /\ lpc' = Cancelled(lpc)
    /\ resume' = ResumeStep("fetch", 0)
    /\ UNCHANGED <<hist, params, source, connected, batch_size, speed, paused,
                   last_sent_ts, last_timestamp, indicator_instances, rows, i,
                   fetch_after, message, outbox>>
    /\ UNCHANGED harnessVars

\* The poll interval is over: back to line 219.
PollWake ==
    /\ pc = "poll_sleep"
    /\ pc' = "gate"
    /\ resume' = ResumeStep("loop", 0)
    /\ UNCHANGED <<hist, params, source, connected, lpc, batch_size, speed, paused,
                   last_sent_ts, last_timestamp, indicator_instances, rows, i,
                   fetch_after, message, outbox>>
    /\ UNCHANGED harnessVars

\* Lines 226-236: the indicators take the row's close and the CANDLE message
\* is sent; on a channel that is gone send_json raises and the loop ends.
ProcessRow ==
    /\ pc = "emit"
    /\ LET row == rows[i]
           upd == update_all(indicator_instances, row.close)
       IN  /\ indicator_instances' =
                [k \in 1..Len(indicator_instances) |->
                    [indicator_instances[k] EXCEPT !.impl = upd[k].obj]]
           /\ IF connected
              THEN /\ outbox' = Append(outbox,
                          CandleMsg(row, indicator_payload(indicator_instances, upd)))
                   /\ pc' = "sent"
                   /\ lpc' = lpc
                   /\ resume' = ResumeStep("emit", row.idx)
              ELSE /\ outbox' = outbox
                   /\ pc' = "done"
                   /\ lpc' = Cancelled(lpc)
                   /\ resume' = ResumeStep("loop", 0)
    /\ UNCHANGED <<hist, params, source, connected, batch_size, speed, paused,
                   last_sent_ts, last_timestamp, rows, i, fetch_after, message>>
    /\ UNCHANGED harnessVars

\* Lines 249-250 and the step to the next row, or to line 253 after the last.
Advance ==
    /\ last_timestamp' = advance_cursor(last_timestamp, last_sent_ts, rows[i].ts)
    /\ last_sent_ts' = Some(rows[i].ts)
    /\ IF i < Len(rows)
       THEN i' = i + 1 /\ pc' = "emit"
       ELSE i' = i /\ pc' = "yield"

\* Lines 239-250: send_json has returned; the loop sleeps the pacing delay
\* when a record was sent before this one, else goes on at once.
AfterSend ==
    /\ pc = "sent"
    /\ IF last_sent_ts # None
       THEN pc' = "pacing" /\ UNCHANGED <<last_timestamp, last_sent_ts, i>>
       ELSE Advance
    /\ resume' = ResumeStep("loop", 0)
    /\ UNCHANGED <<hist, params, source, connected, lpc, batch_size, speed, paused,
                   indicator_instances, rows, fetch_after, message, outbox>>
    /\ UNCHANGED harnessVars

\* Lines 247-250: the pacing delay is over.
PacingDone ==
    /\ pc = "pacing"
    /\ Advance
    /\ resume' = ResumeStep("loop", 0)
    /\ UNCHANGED <<hist, params, source, connected, lpc, batch_size, speed, paused,
                   indicator_instances, rows, fetch_after, message, outbox>>
    /\ UNCHANGED harnessVars

\* Line 253: the yield after a batch is over: back to line 219.
YieldDone ==
    /\ pc = "yield"
    /\ pc' = "gate"
    /\ resume' = ResumeStep("loop", 0)
    /\ UNCHANGED <<hist, params, source, connected, lpc, batch_size, speed, paused,
                   last_sent_ts, last_timestamp, indicator_instances, rows, i,
                   fetch_after, message, outbox>>
    /\ UNCHANGED harnessVars

\* ------------------------------------------------------- control listener

Running == pc \notin {"accept", "closed", "done"}

\* Lines 196-213: one frame arrives and control_listener handles it.
Receive(m) ==
    /\ lpc = "recv"
    /\ connected
    /\ Running
    /\ IF ~m.decodable
       THEN /\ lpc' = "done"
            /\ UNCHANGED <<speed, paused, message>>
            /\ resume' = ResumeStep("ctl", 0)
       ELSE /\ lpc' = lpc
            /\ message' = Some(m)
            /\ speed' = control_apply(m, speed, paused).speed
            /\ paused' = control_apply(m, speed, paused).paused
            /\ resume' = ResumeStep(IF m.dict /\ m.type \in {"PAUSE", "PLAY"}
                                    THEN m.type ELSE "ctl", 0)
    /\ hist' = [hist EXCEPT !.mark = IF ~paused' THEN None
                                       ELSE IF paused THEN hist.mark
                                       ELSE Some(Len(outbox))]
    /\ UNCHANGED <<params, source, connected, pc, batch_size, last_sent_ts,
                   last_timestamp, indicator_instances, rows, i, fetch_after,
                   outbox>>
    /\ UNCHANGED harnessVars

\* Lines 210-211: receive_json raises WebSocketDisconnect.
ListenerDisconnect ==
    /\ lpc = "recv"
    /\ ~connected
    /\ lpc' = "done"
    /\ resume' = ResumeStep("ctl", 0)
    /\ UNCHANGED <<hist, params, source, connected, pc, batch_size, speed, paused,
                   last_sent_ts, last_timestamp, indicator_instances, rows, i,
                   fetch_after, message, outbox>>
    /\ UNCHANGED harnessVars

\* The client goes away.
Disconnect ==
    /\ connected
    /\ Running
    /\ connected' = FALSE
    /\ resume' = ResumeStep("loop", 0)
    /\ UNCHANGED <<hist, params, source, pc, lpc, batch_size, speed, paused,
                   last_sent_ts, last_timestamp, indicator_instances, rows, i,
                   fetch_after, message, outbox>>
    /\ UNCHANGED harnessVars

\* --------------------------------------------------------- specifications

ReplayStep ==
    \/ PauseWait
    \/ PauseWake
    \/ FetchStart
    \/ FetchReturn
    \/ FetchFail
    \/ PollWake
    \/ ProcessRow
    \/ AfterSend
    \/ PacingDone
    \/ YieldDone

Next ==
    \/ Setup
    \/ ReplayStep
    \/ \E m \in CoreMsgs : Receive(m)
    \/ ListenerDisconnect
    \/ Disconnect

\* One session, with the control messages that matter to the replay loop.
Spec == Init /\ [][Next]_vars

\* The replay specification under the scheduling asyncio gives: a task that
\* can run does run (a sleep ends, a fetch returns or fails, a send returns
\* or raises), and a receive on a channel that is gone raises. Nothing makes
\* the client send or go away.
FairSpec ==
    /\ Spec
    /\ WF_vars(Setup)
    /\ WF_vars(ReplayStep)
    /\ WF_vars(ListenerDisconnect)

\* The sources of the control specification: at most two rows, one per
\* timestamp.
CtlSources == {x \in Sources : Len(x) <= 2 /\ \A k \in 1..Len(x) : x[k].ts = k}

\* One session over a short source, with every kind of control message.
CtlInit ==
    /\ \E p \in SpeedParams \cup {BaseParams}, src \in CtlSources : SessionStart(p, src)
    /\ HarnessIdle

NextCtl ==
    \/ Setup
    \/ ReplayStep
    \/ \E m \in CtlMsgs : Receive(m)
    \/ ListenerDisconnect
    \/ Disconnect

CtlSpec == CtlInit /\ [][NextCtl]_vars

\* The sources with one row per timestamp.
LiveSources ==
    {x \in Sources : \A k \in 1..(Len(x) - 1) : x[k].ts < x[k + 1].ts}

LiveInit ==
    /\ \E p \in CursorParams, src \in LiveSources : SessionStart(p, src)
    /\ HarnessIdle

\* The steps of the replay loop when no fetch fails.
LiveStep ==
    \/ PauseWait
    \/ PauseWake
    \/ FetchStart
    \/ FetchReturn
    \/ PollWake
    \/ ProcessRow
    \/ AfterSend
    \/ PacingDone
    \/ YieldDone

LiveNext ==
    \/ Setup
    \/ LiveStep
    \/ \E m \in CoreMsgs : Receive(m)

\* One session whose channel stays connected and whose fetches succeed,
\* under the scheduling asyncio gives: the handler runs on after accept, a
\* sleep ends, a fetch returns, a send returns. The client sends what it
\* likes when it likes, or nothing.
LiveSpec ==
    /\ LiveInit
    /\ [][LiveNext]_vars
    /\ WF_vars(Setup)
    /\ WF_vars(LiveStep)

\* ------------------------------------------------ pure-function harness

\* The prices fed to the SMA: 1 to 5, and 2^53.
Values == {F(0, n) : n \in 1..5} \cup {F(1, 0)}

\* The strings given to clamp_batch_size.
RawInputs ==
    {NoneV, EmptyStr, Text, NanStr, DecStr(25)}
    \cup {IntStr(n) : n \in (-3)..3}
    \cup {IntStr(DEFAULT_BATCH_SIZE + d) : d \in (-1)..1}
    \cup {IntStr(MAX_BATCH_SIZE + d) : d \in {-1, 0, 1, 2, 1000}}

\* No session; a SimpleMovingAverage is constructed.
FnInit ==
    /\ \E src \in {<<>>} : SessionStart(BaseParams, src)
    /\ \E period \in 0..MaxPeriod : sma = SMA_init(period)
    /\ fed = <<>>
    /\ outs = <<>>
    /\ raw = NoneV
    /\ clamped = None
    /\ pace = None

\* sma.update(value)
SmaFeed(value) ==
    /\ clamped = None
    /\ pace = None
    /\ Len(fed) < MaxFeed
    /\ sma' = SMA_update(sma, value).obj
    /\ outs' = Append(outs, SMA_update(sma, value).ret)
    /\ fed' = Append(fed, value)
    /\ UNCHANGED <<raw, clamped, pace>>
    /\ UNCHANGED sessionVars

\* clamp_batch_size(r)
ClampCall(r) ==
    /\ clamped = None
    /\ fed = <<>>
    /\ pace = None
    /\ raw' = r
    /\ clamped' = Some(clamp_batch_size(r))
    /\ UNCHANGED <<sma, fed, outs, pace>>
    /\ UNCHANGED sessionVars

\* The tunables the pacing harness runs under: the defaults; a reference
\* delta of one minute; a base delay of 30 ms; a minimum of 25 ms, above
\* the 20 ms the dynamic maximum falls to; a minimum above the maximum; a
\* reference delta of 0.
PaceTunables ==
    {DefaultTunables,
     [DefaultTunables EXCEPT !.ref = 60000],
     [DefaultTunables EXCEPT !.base = 30],
     [DefaultTunables EXCEPT !.min = 25],
     [DefaultTunables EXCEPT !.min = 300],
     [DefaultTunables EXCEPT !.ref = 0]}
\* The timestamps of two records sent one after the other (ms).
PaceStamps == {0, 60000, 900000, 3600000}
\* The speeds, in tenths: 0.1 to 100.
PaceSpeeds == {1, 5, 10, 25, 100, 125, 200, 1000}

\* Lines 239-246 for one pair of records.
PaceCall(cfg, ts, last, s) ==
    /\ pace = None
    /\ clamped = None
    /\ fed = <<>>
    /\ pace' = Some([cfg |-> cfg, ts |-> ts, last |-> last, speed |-> Num(s),
                     delay |-> pacing_delay(cfg, ts, last, Num(s))])
    /\ UNCHANGED <<sma, fed, outs, raw, clamped>>
    /\ UNCHANGED sessionVars

NextFn ==
    \/ \E value \in Values : SmaFeed(value)
    \/ \E r \in RawInputs : ClampCall(r)
    \/ \E cfg \in PaceTunables, ts \in PaceStamps, last \in PaceStamps, s \in PaceSpeeds :
          PaceCall(cfg, ts, last, s)

FnSpec == FnInit /\ [][NextFn]_vars

\* ================================================================ claims

\* C1: when the loop has processed every row of a non-empty batch the cursor
\* last_timestamp is the timestamp of the batch's last row, and when a fetch
\* has returned an empty batch the cursor is still the one the fetch was
\* given.
C1_CursorAfterBatch ==
    /\ pc = "yield" => rows # <<>> /\ last_timestamp = Some(rows[Len(rows)].ts)
    /\ pc = "poll_sleep" => rows = <<>> /\ last_timestamp = fetch_after

\* An empty batch follows a batch of two rows or more, the cursor resting on
\* the last row sent.
C1_Witness ==
    /\ pc = "poll_sleep"
    /\ Len(outbox) >= 2
    /\ batch_size >= 2
    /\ last_timestamp = Some(outbox[Len(outbox)].ts)

\* a <= b on cursors, None being below every timestamp.
CursorLe(a, b) == a = None \/ (b # None /\ a[1] <= b[1])

\* C2: from the cursor the client gives (after/from, read at setup) onwards,
\* no step of the session, of the replay loop or of the control listener,
\* lowers the cursor.
C2_CursorMonotonic ==
    [][pc # "accept" => CursorLe(last_timestamp, last_timestamp')]_vars

\* The cursor has moved past the one the client gave, control messages
\* having been handled on the way.
C2_Witness ==
    /\ PyOr(params.after, params.from).k = "int"
    /\ last_timestamp # None
    /\ last_timestamp[1] > PyOr(params.after, params.from).v
    /\ message # None
    /\ Len(outbox) >= 2

\* C3, as claimed: a PAUSE directly followed by a PLAY, no fetch started or
\* completed between them, finds the cursor at PLAY where it was at PAUSE,
\* and the record sent next is the first row of the source with a timestamp
\* greater than the cursor held when PAUSE was applied.
C3_ResumeFromPauseCursor ==
    /\ resume.st \in {"armed", "fired"} => resume.at = resume.cur
    /\ resume.st = "fired" => resume.got = FirstAfter(source, resume.cur)

\* C3, amended: the pair leaves the cursor where it was when PAUSE arrives
\* with no batch in hand, and the record sent next is then the first row of
\* the source after that cursor; a PAUSE that arrives with a batch in hand
\* does not stop its rows. In every case the record sent after PLAY is the
\* next unsent row of the batch in hand when PLAY is applied or, none being
\* left, the first row of the source with a timestamp greater than that of
\* the last record sent (than the first cursor, when none was sent).
C3_ResumeFromSamePoint ==
    /\ resume.st \in {"armed", "fired"} /\ ~resume.inhand =>
          /\ resume.at = resume.cur
          /\ resume.exp = FirstAfter(source, resume.cur)
    /\ resume.st = "fired" => resume.got = resume.exp

\* PAUSE and PLAY arrived between two batches and the next batch's first row
\* has been sent.
C3_Witness ==
    /\ resume.st = "fired"
    /\ ~resume.inhand
    /\ resume.cur # None
    /\ resume.got = resume.exp
    /\ Len(outbox) >= 2

Stopped == pc \in {"closed", "done"} /\ lpc # "recv"

\* C4: once the channel is gone both tasks stop in the end, the control
\* listener and the replay loop, and no message is sent after it went.
C4_DisconnectStopsBoth ==
    /\ (~connected) ~> Stopped
    /\ [][~connected => outbox' = outbox]_vars

\* C5: the speed is a number and is never below 0.1: after setup, whatever
\* the speed parameter was, and after every control message.
C5_SpeedFloor == pc # "accept" => ~speed.nan /\ speed.v >= MIN_SPEED

\* A SET_SPEED whose speed is NaN has been handled, in a session that began
\* above the floor, and the speed rests on the floor.
C5_Witness ==
    /\ message = Some(SET_SPEED(JNaN))
    /\ initial_speed(params.speed) # Num(MIN_SPEED)
    /\ speed = Num(MIN_SPEED)

\* The decoded messages control_listener drops: a SET_SPEED whose speed does
\* not parse, a kind it does not know, no kind at all.
Dropped(m) ==
    /\ m.decodable
    /\ m.dict
    /\ \/ m.type = "SET_SPEED" /\ ~py_float_json(m.speed).ok
       \/ m.type \notin {"SET_SPEED", "PAUSE", "PLAY"}

\* C6: a dropped message changes neither speed nor paused and the listener
\* goes on receiving; PAUSE and PLAY never change speed; SET_SPEED never
\* changes paused.
C6_ControlFrame ==
    [][\A m \in CtlMsgs :
          Receive(m) =>
             /\ Dropped(m) => speed' = speed /\ paused' = paused /\ lpc' = "recv"
             /\ m.type \in {"PAUSE", "PLAY"} => speed' = speed
             /\ m.type = "SET_SPEED" => paused' = paused]_vars

\* A SET_SPEED with a text for a speed has been dropped in a paused session
\* whose speed an earlier message had set.
C6_Witness ==
    /\ message = Some(SET_SPEED(JStr(Text)))
    /\ speed = Num(25)
    /\ paused
    /\ lpc = "recv"

\* The closes of the first n records sent.
ClosesSent(n) == [m \in 1..n |-> source[outbox[m].idx].close]
LastN(sq, n) == SubSeq(sq, Len(sq) - n + 1, Len(sq))
\* The mean of the last p of some closes, in exact arithmetic; None below p.
MeanOfLast(p, closes) ==
    IF Len(closes) < p THEN None
    ELSE Some([num |-> ExactSum(LastN(closes, p)), den |-> p])
\* The period of the last instance registered under an id.
LaterPeriod(id) ==
    LET k == CHOOSE j \in 1..Len(indicator_instances) :
                /\ indicator_instances[j].id = id
                /\ \A l \in 1..Len(indicator_instances) :
                      indicator_instances[l].id = id => l <= j
    IN  indicator_instances[k].impl.period

\* C7, as claimed: after setup the registry holds one instance per id, the
\* one built from the later spec.
C7_OneInstancePerId ==
    pc # "accept" =>
        \A j, k \in 1..Len(indicator_instances) :
            indicator_instances[j].id = indicator_instances[k].id => j = k

\* C7, amended: the list keeps an instance for every sma spec, also for two
\* specs with one id, and every one of them takes every record; what the
\* later spec wins is the entry of the CANDLE message: under a shared id the
\* message carries the value of the instance built from the later spec.
C7_LaterSpecWinsInMessage ==
    /\ \A n \in 1..Len(outbox) :
          outbox[n].type = "CANDLE" =>
             /\ DOMAIN outbox[n].indicators = InstanceIds(indicator_instances)
             /\ \A id \in DOMAIN outbox[n].indicators :
                   outbox[n].indicators[id] = MeanOfLast(LaterPeriod(id), ClosesSent(n))
    /\ pc \notin {"accept", "closed", "done"} =>
          \A k \in 1..Len(indicator_instances) :
             LET fedSoFar == ClosesSent(Len(outbox))
                 impl == indicator_instances[k].impl
             IN  impl.window = LastN(fedSoFar, Min2(impl.period, Len(fedSoFar)))

\* Two instances share an id and differ in what they return for the record
\* just sent; the message carries the later one's value.
C7_Witness ==
    /\ Len(outbox) >= 2
    /\ \E j, k \in 1..Len(indicator_instances) :
          /\ j < k
          /\ indicator_instances[j].id = indicator_instances[k].id
          /\ LET closes == ClosesSent(Len(outbox))
                 id == indicator_instances[k].id
             IN  /\ MeanOfLast(indicator_instances[j].impl.period, closes)
                       # MeanOfLast(indicator_instances[k].impl.period, closes)
                 /\ MeanOfLast(indicator_instances[j].impl.period, closes) # None
                 /\ outbox[Len(outbox)].indicators[id]
                       = MeanOfLast(indicator_instances[k].impl.period, closes)

\* The strings that are no number: a text, "nan", "".
NonNumeric(s) == s.k \in {"text", "nan", "empty"}

\* C8, as claimed: a batch of 0, of a negative number or of a string that is
\* no number gives the default batch size, and one above the maximum gives
\* the maximum.
C8_ZeroAndNegativeGiveDefault ==
    clamped # None =>
        /\ raw.k = "int" /\ raw.v <= 0 => clamped = Some(DEFAULT_BATCH_SIZE)
        /\ NonNumeric(raw) => clamped = Some(DEFAULT_BATCH_SIZE)
        /\ raw.k = "int" /\ raw.v > MAX_BATCH_SIZE => clamped = Some(MAX_BATCH_SIZE)

\* C8, amended: a batch of 0 or of a negative number gives 1, the lower end
\* of the clamp; a string that is no number gives the default batch size;
\* one above the maximum gives the maximum.
C8_ZeroAndNegativeGiveOne ==
    clamped # None =>
        /\ raw.k = "int" /\ raw.v <= 0 => clamped = Some(1)
        /\ NonNumeric(raw) => clamped = Some(DEFAULT_BATCH_SIZE)
        /\ raw.k = "int" /\ raw.v > MAX_BATCH_SIZE => clamped = Some(MAX_BATCH_SIZE)

\* clamp_batch_size("0") has returned 1.
C8_Witness == raw = IntStr(0) /\ clamped = Some(1)

\* C9: the k-th update returns None when k is below the period and else the
\* sum of the last period values fed, over the period. Stated for the calls
\* whose exact sum is a float64, where the sum itself needs no rounding.
C9_UpdateReturnsMean ==
    \A k \in 1..Len(outs) :
        LET lastp == LastN(SubSeq(fed, 1, k), sma.period)
        IN  IF k < sma.period
            THEN outs[k] = None
            ELSE Representable(ExactSum(lastp)) =>
                    outs[k] = Some([num |-> ExactSum(lastp), den |-> sma.period])

\* The example of C9: period 3 fed 1, 2, 3, 4, 5 returns None, None, 2, 3, 4.
SmaExample ==
    sma.period = 3 /\ fed = <<F(0, 1), F(0, 2), F(0, 3), F(0, 4), F(0, 5)>> =>
        outs = <<None, None, Some([num |-> F(0, 6), den |-> 3]),
                 Some([num |-> F(0, 9), den |-> 3]),
                 Some([num |-> F(0, 12), den |-> 3])>>

\* C10: after every update the window is no longer than the period, the
\* running sum is the sum of the values in the window (stated where that
\* sum is a float64), and from the period-th call on the window is the last
\* period values fed, in order.
C10_WindowAndRunningSum ==
    /\ Len(sma.window) <= sma.period
    /\ Representable(ExactSum(sma.window)) => sma.sum = ExactSum(sma.window)
    /\ Len(fed) >= sma.period => sma.window = LastN(fed, sma.period)

\* The part of C10 that does hold: the window.
SmaWindow ==
    /\ Len(sma.window) <= sma.period
    /\ Len(fed) >= sma.period => sma.window = LastN(fed, sma.period)

\* The dynamic maximum and the delay of the pacing call made.
PaceMax == dynamic_max(pace[1].cfg, pace[1].speed)
PaceDelay == pace[1].delay.val
PaceDone == pace # None /\ pace[1].delay.ok

C12_DelayNonIncreasingInSpeed ==
    PaceDone =>
        \A s2 \in PaceSpeeds :
            pace[1].speed.v <= s2 =>
                RLe(pacing_delay(pace[1].cfg, pace[1].ts, pace[1].last, Num(s2)).val,
                    PaceDelay)

\* A pacing call whose delay lies strictly between the clamps, and a higher
\* speed that gives a strictly shorter delay, also between the clamps.
C12_Witness ==
    /\ PaceDone
    /\ RLt(RInt(pace[1].cfg.min), PaceDelay)
    /\ RLt(PaceDelay, PaceMax)
    /\ \E s2 \in PaceSpeeds :
          LET d2 == pacing_delay(pace[1].cfg, pace[1].ts, pace[1].last, Num(s2)).val
          IN  /\ pace[1].speed.v < s2
              /\ RLt(d2, PaceDelay)
              /\ RLt(RInt(pace[1].cfg.min), d2)

\* The setup-time failures of C13, read off the query parameters.
SetupFailure ==
    \/ ~Truthy(params.symbol)
    \/ ~Truthy(params.timeframe)
    \/ NonNumeric(PyOr(params.after, params.from))
    \/ params.indicators = IndMalformed

\* The session has sent one ERROR message and closed, and has done nothing
\* else: no fetch, no CANDLE, no control listener.
ClosedOnError ==
    /\ pc = "closed"
    /\ ~connected
    /\ Len(outbox) = 1
    /\ outbox[1].type = "ERROR"
    /\ lpc = "none"
    /\ hist.fetched = <<>>
    /\ fetch_after = None
    /\ rows = <<>>

\* C13: a session whose parameters fail the setup ends, and stays, with one
\* ERROR message sent and the channel closed: no fetch, no CANDLE, no
\* control listener.
C13_SetupFailureIsFatal == pc # "accept" /\ SetupFailure => ClosedOnError

\* A session with malformed indicators JSON, and nothing else wrong, has
\* ended on its ERROR message.
C13_Witness ==
    /\ params.indicators = IndMalformed
    /\ Truthy(params.symbol) /\ Truthy(params.timeframe)
    /\ outbox = <<ErrorMsg("invalid indicators payload")>>
    /\ ClosedOnError

\* C14: a session whose indicators parameter is JSON but no list ends like
\* one with malformed JSON: an ERROR message, the channel closed, no replay.
C14_NonListIsFatal ==
    pc # "accept" /\ params.indicators = IndNotList => ClosedOnError

\* C15: the step in which a fetch fails ends the replay loop and cancels the
\* control listener without a message sent, and a loop that has ended stays
\* ended: no fetch, no message, no control message handled.
C15_FetchFailureIsFatal ==
    [][/\ FetchFail => pc' = "done" /\ lpc' \in {"cancelled", "done"} /\ outbox' = outbox
       /\ pc = "done" =>
             /\ pc' = "done"
             /\ lpc' = lpc /\ lpc \in {"cancelled", "done"}
             /\ outbox' = outbox
             /\ hist' = hist /\ fetch_after' = fetch_after /\ rows' = rows
             /\ speed' = speed /\ paused' = paused]_vars

\* A fetch has failed on a channel that is still there, after a record was
\* sent and a control message handled: the listener is cancelled.
C15_Witness ==
    /\ pc = "done"
    /\ connected
    /\ lpc = "cancelled"
    /\ outbox # <<>>
    /\ message # None

\* The source rows sent and the source rows fetched, in order.
EmittedIdx == [n \in 1..Len(outbox) |-> outbox[n].idx]
FetchedIdx == [n \in 1..Len(hist.fetched) |-> hist.fetched[n].idx]
AtBatchBoundary == pc \in {"gate", "pause_sleep", "fetch", "poll_sleep", "yield"}

\* C16: the records sent are the batches fetched, one after the other in the
\* order fetched: all of them between two batches, all but the unsent rest
\* of the batch in hand within one; their timestamps never decrease and no
\* source row is sent twice.
C16_EmissionIsFetchOrder ==
    pc \notin {"accept", "closed"} =>
        /\ \A n \in 1..Len(outbox) : outbox[n].type = "CANDLE"
        /\ Len(outbox) <= Len(FetchedIdx)
        /\ EmittedIdx = SubSeq(FetchedIdx, 1, Len(outbox))
        /\ AtBatchBoundary => EmittedIdx = FetchedIdx
        /\ InBatch => Len(outbox) = Len(FetchedIdx) - Len(Unsent)
        /\ \A a, b \in 1..Len(outbox) :
              a < b => outbox[a].ts <= outbox[b].ts /\ outbox[a].idx # outbox[b].idx

\* Three records have been sent out of more than one batch, with control
\* messages handled on the way.
C16_Witness ==
    /\ Len(outbox) = 3
    /\ batch_size < 3
    /\ message # None
    /\ AtBatchBoundary
    /\ EmittedIdx = FetchedIdx

\* C17: a fetch starts only with paused unset, and a loop that finds paused
\* set at the gate waits and looks again: as long as paused stays set it
\* starts no fetch, sends nothing, and changes neither the cursor nor an
\* indicator.
C17_PauseGate ==
    [][/\ pc # "fetch" /\ pc' = "fetch" => ~paused /\ pc = "gate"
       /\ paused /\ pc \in {"gate", "pause_sleep"} =>
             /\ pc' \in {"gate", "pause_sleep"}
             /\ outbox' = outbox
             /\ last_timestamp' = last_timestamp
             /\ last_sent_ts' = last_sent_ts
             /\ indicator_instances' = indicator_instances
             /\ fetch_after' = fetch_after /\ rows' = rows /\ hist.fetched = hist'.fetched]_vars

\* The loop waits at the gate of a paused session that has sent a record
\* and has rows left to fetch.
C17_Witness ==
    /\ pc = "pause_sleep"
    /\ paused
    /\ outbox # <<>>
    /\ FirstAfter(source, last_timestamp) # 0

\* C18: a frame that is no structured object, decoded or not, changes
\* nothing and leaves the control listener receiving.
C18_NonObjectIgnored ==
    [][\A m \in CtlMsgs :
          Receive(m) /\ ~(m.decodable /\ m.dict) =>
             lpc' = "recv" /\ speed' = speed /\ paused' = paused]_vars

\* The part of C18 that does hold: a frame that decodes to something other
\* than an object is ignored.
NonObjectDecodedIgnored ==
    [][Receive(NotAnObject) => lpc' = "recv" /\ speed' = speed /\ paused' = paused]_vars

\* C19: the records sent since paused was set are no more than the clamped
\* batch size, the unsent rest of the batch in hand counted in; they are
\* rows of the one batch that was in flight or in hand, for once the loop
\* is back at the gate with paused set nothing is sent until PLAY.
C19_PauseAtBatchBoundary ==
    [][/\ paused' /\ hist'.mark # None =>
             /\ Len(outbox') - hist'.mark[1] <= batch_size'
             /\ pc' \in {"emit", "sent", "pacing"} =>
                   Len(outbox') - hist'.mark[1] + Len(Unsent)' <= batch_size'
       /\ paused /\ paused' /\ pc \in {"yield", "gate", "pause_sleep"} =>
             outbox' = outbox /\ pc' \in {"yield", "gate", "pause_sleep"}
       /\ paused /\ pc \in {"emit", "sent", "pacing"} =>
             pc' \in {"emit", "sent", "pacing", "yield", "done"}]_vars

\* PAUSE came with a fetch in flight or a batch in hand, a whole batch of
\* two records was sent after it, and the loop now waits at the gate.
C19_Witness ==
    /\ paused
    /\ hist.mark # None
    /\ batch_size = 2
    /\ Len(outbox) - hist.mark[1] = batch_size
    /\ pc = "pause_sleep"
    /\ FirstAfter(source, last_timestamp) # 0

\* The rows of the source the session is to replay: those after its first
\* cursor.
Due(k) ==
    LET first == initial_cursor(PyOr(params.after, params.from))
    IN  first.ok /\ (first.val = None \/ source[k].ts > first.val[1])
TimesSent(k) == Cardinality({n \in 1..Len(outbox) : outbox[n].idx = k})
AllEmitted == \A k \in 1..Len(source) : Due(k) => TimesSent(k) = 1
NoneTwice ==
    pc # "closed" => \A k \in 1..Len(source) : TimesSent(k) <= (IF Due(k) THEN 1 ELSE 0)

\* C20, as claimed: when every PAUSE is followed by a PLAY, every row of the
\* source after the first cursor is sent in the end, and none twice.
C20_ReplayCompletes ==
    /\ []NoneTwice
    /\ [](paused => <>~paused) => <>(pc = "closed" \/ AllEmitted)

\* C20, amended: when the pausing stops in the end, that is from some point
\* on paused stays unset, every row of the source after the first cursor is
\* sent in the end, and none twice. A PLAY that follows every PAUSE is not
\* enough: the loop looks at paused only when it is at the gate, and a PLAY
\* with the next PAUSE right behind it goes unseen.
C20_ReplayCompletesOncePausingStops ==
    /\ []NoneTwice
    /\ <>[]~paused => <>(pc = "closed" \/ AllEmitted)

\* A session with a first cursor and a batch size of 1 has sent every row
\* after the cursor, three fetches and a PAUSE on the way, and polls.
C20_Witness ==
    /\ AllEmitted
    /\ Len(outbox) >= 2
    /\ Len(outbox) < Len(source)
    /\ batch_size = 1
    /\ message = Some(PLAY)
    /\ pc = "poll_sleep"

====
